---- MODULE Spec2Model ----
(***************************************************************************)
(* Model of class Board of risk.py (Python 2: range(n)*42 is a list, a/3   *)
(* on ints is floor division).  A Board holds self.data, a list of tuples  *)
(* (territory_id, player_id, armies) indexed by territory id.              *)
(*                                                                         *)
(* self.data is modelled as a function from 0-based list indices to        *)
(* 3-tuples; a Python tuple index k is the TLA+ tuple index k+1.           *)
(***************************************************************************)
EXTENDS Integers, Sequences, FiniteSets, TLC

\* Scaled-down sizes of the model.
NTerritories == 5          \* number of slots Board.create fills (42 in risk.py)
MaxPlayers == 2            \* largest n_players / player id range (6 in risk.py)
NumContinents == 2         \* continent ids 0..NumContinents-1 (range(6) in risk.py)
MaxExtraArmies == 1        \* cap on the armies on a board beyond one per territory
HandBuiltTerritories == 14 \* records of the hand-built board of SpecReinf
MaxForeign == 3            \* SpecReinf: cap on territories taken from player 0

VARIABLES
    data,       \* Board.data
    n_players,  \* the argument Board.create was called with
    status,     \* how the last call ended: "created" (create), "built" (Board(data)),
                \* "ok", "AssertionError", "called" (generator taken), "iterated"
    gen,        \* the generator object held by the consumer (SpecIter)
    result      \* what the last full iteration of gen yielded

vars == <<data, n_players, status, gen, result>>

\* The value None.
None == -1

PlayerIds == 0 .. (MaxPlayers - 1)

Max(a, b) == IF a >= b THEN a ELSE b

----------------------------------------------------------------------------
(* The static map, module `definitions` (not part of the sources at hand). *)
(* Territory ids form a chain, continents partition the ids.               *)

\* definitions.territory_neighbors[territory_id]
territory_neighbors(territory_id) == {territory_id - 1, territory_id + 1}

\* tid in definitions.continent_territories[continent_id]
in_continent(tid, continent_id) == tid % NumContinents = continent_id

\* definitions.continent_bonuses[continent_id]
continent_bonuses(continent_id) == IF continent_id = 0 THEN 5 ELSE continent_id + 1

ContinentIds == 0 .. (NumContinents - 1)

----------------------------------------------------------------------------
(* Accessors and list views.                                               *)

Tids(d) == DOMAIN d

\* self.data in iteration order, as a sequence
Records(d) == [i \in 1 .. Cardinality(DOMAIN d) |-> d[i - 1]]

owner(d, territory_id) == d[territory_id][2]

armies(d, territory_id) == d[territory_id][3]

\* sum((arm for tid, pid, arm in self.data)), the armies on the whole board
TotalArmies(d) ==
    LET RECURSIVE Sum(_)
        Sum(k) == IF k = 0 THEN 0 ELSE d[k - 1][3] + Sum(k - 1)
    IN  Sum(Cardinality(DOMAIN d))

----------------------------------------------------------------------------
(* Board.create                                                            *)

\* Variant: the player ids cycle over one id too many.
allocation_wide(n) == [i \in 0 .. (NTerritories - 1) |-> i % (n + 1)]

\* (range(n_players)*42)[0:42]
allocation(n) == [i \in 0 .. (NTerritories - 1) |-> i % n]

\* Variant: every slot draws an entry of the list afresh.
shuffle_resample(a) == [DOMAIN a -> {a[i] : i \in DOMAIN a}]

\* random.shuffle(allocation): every rearrangement of the list
shuffle(a) == {[i \in DOMAIN a |-> a[s[i]]] : s \in Permutations(DOMAIN a)}

\* cls([(tid, pid, 1) for tid, pid in enumerate(allocation)])
create(n) == {[tid \in DOMAIN a |-> <<tid, a[tid], 1>>] : a \in shuffle(allocation(n))}

\* Board(data) for hand-built lists of one-army records: every territory
\* owned by player 0, and the first five owned by the last player instead
HandBuilt ==
    {[tid \in 0 .. (HandBuiltTerritories - 1) |-> <<tid, 0, 1>>],
     [tid \in 0 .. (HandBuiltTerritories - 1) |->
         <<tid, IF tid < 5 THEN MaxPlayers - 1 ELSE 0, 1>>]}

----------------------------------------------------------------------------
(* Mutators.  set_armies and add_armies give <<raised, board>>: whether the *)
(* assertion fired and the board the call leaves.                          *)

Raised(r) == r[1]

Board(r) == r[2]

\* Variant: the new record starts again with one army.
set_owner_resets(d, territory_id, player_id) ==
    [d EXCEPT ![territory_id] = <<territory_id, player_id, 1>>]

set_owner(d, territory_id, player_id) ==
    [d EXCEPT ![territory_id] = <<territory_id, player_id, armies(d, territory_id)>>]

\* Variant: a non-positive n is clamped to 1 without an error.
set_armies_clamped(d, territory_id, n) ==
    <<FALSE, [d EXCEPT ![territory_id] =
                  <<territory_id, owner(d, territory_id), IF n > 0 THEN n ELSE 1>>]>>

\* Variant: the assertion lets n = 0 through.
set_armies_nonneg(d, territory_id, n) ==
    IF n >= 0
    THEN <<FALSE, [d EXCEPT ![territory_id] = <<territory_id, owner(d, territory_id), n>>]>>
    ELSE <<TRUE, d>>

\* Variant: the new tuple has owner and armies in each other's place.
set_armies_swapped(d, territory_id, n) ==
    IF n > 0
    THEN <<FALSE, [d EXCEPT ![territory_id] = <<territory_id, n, owner(d, territory_id)>>]>>
    ELSE <<TRUE, d>>

set_armies(d, territory_id, n) ==
    IF n > 0
    THEN <<FALSE, [d EXCEPT ![territory_id] = <<territory_id, owner(d, territory_id), n>>]>>
    ELSE <<TRUE, d>>

add_armies(d, territory_id, n) ==
    set_armies(d, territory_id, armies(d, territory_id) + n)

----------------------------------------------------------------------------
(* Queries.  A generator expression over self.data is modelled by the      *)
(* sequence of the records it yields when iterated to the end.             *)

\* len([pid for tid, pid, arm in self.data if pid == player_id])
n_territories(d, player_id) ==
    Len(SelectSeq(Records(d), LAMBDA r : r[2] = player_id))

\* Variant: a territory with a single army counts as offensive.
offensive_single(d, player_id) ==
    SelectSeq(Records(d), LAMBDA r : r[2] = player_id /\ r[3] >= 1)

\* ((tid, pid, arm) for (tid, pid, arm) in self.data if (pid == player_id and arm > 1))
offensive(d, player_id) ==
    SelectSeq(Records(d), LAMBDA r : r[2] = player_id /\ r[3] > 1)

\* ((tid, pid, arm) for (tid, pid, arm) in self.data if tid in neighbor_ids)
neighbors(d, territory_id) ==
    LET neighbor_ids == territory_neighbors(territory_id)
    IN  SelectSeq(Records(d), LAMBDA r : r[1] \in neighbor_ids)

\* The generator of hostile_neighbors once player_id has been read.
hostile_to(d, player_id, territory_id) ==
    LET neighbor_ids == territory_neighbors(territory_id)
    IN  SelectSeq(Records(d), LAMBDA r : r[2] # player_id /\ r[1] \in neighbor_ids)

hostile_neighbors(d, territory_id) ==
    hostile_to(d, owner(d, territory_id), territory_id)

continent(d, continent_id) ==
    SelectSeq(Records(d), LAMBDA r : in_continent(r[1], continent_id))

\* Variant: any owner found in the continent is returned.
continent_owner_any(d, continent_id) ==
    LET c    == continent(d, continent_id)
        pids == {c[i][2] : i \in 1 .. Len(c)}
    IN  IF Cardinality(pids) >= 1 THEN CHOOSE pid \in pids : TRUE ELSE None

continent_owner(d, continent_id) ==
    LET c    == continent(d, continent_id)
        pids == {c[i][2] : i \in 1 .. Len(c)}
    IN  IF Cardinality(pids) = 1 THEN CHOOSE pid \in pids : TRUE ELSE None

\* len([continent_id for continent_id in range(6) if ...])
n_continents(d, player_id) ==
    Cardinality({continent_id \in ContinentIds : continent_owner(d, continent_id) = player_id})

\* [(fr_tid, fr_arm, to_tid, to_pid, to_arm) for ... in offensive for ... in hostile_neighbors]
possible_attacks(d, player_id) ==
    LET off == offensive(d, player_id)
        Row(fr) == LET h == hostile_neighbors(d, fr[1])
                   IN  [j \in 1 .. Len(h) |-> <<fr[1], fr[3], h[j][1], h[j][2], h[j][3]>>]
        RECURSIVE Join(_)
        Join(k) == IF k = 0 THEN <<>> ELSE Join(k - 1) \o Row(off[k])
    IN  Join(Len(off))

\* Variant: the base lacks the minimum of 3.
reinforcements_nofloor(d, player_id) ==
    LET base_reinforcements == n_territories(d, player_id) \div 3
        RECURSIVE Bonus(_)
        Bonus(k) == IF k = 0 THEN 0
                    ELSE Bonus(k - 1) +
                         (IF continent_owner(d, k - 1) = player_id
                          THEN continent_bonuses(k - 1) ELSE 0)
    IN  base_reinforcements + Bonus(NumContinents)

reinforcements(d, player_id) ==
    LET base_reinforcements == Max(3, n_territories(d, player_id) \div 3)
        RECURSIVE Bonus(_)
        \* the loop over definitions.continent_bonuses.items()
        Bonus(k) == IF k = 0 THEN 0
                    ELSE Bonus(k - 1) +
                         (IF continent_owner(d, k - 1) = player_id
                          THEN continent_bonuses(k - 1) ELSE 0)
    IN  base_reinforcements + Bonus(NumContinents)

----------------------------------------------------------------------------
(* A generator object: <<kind, arg, player_id, exhausted, passes, touched>>, *)
(* kind the method that returned it, arg its argument, player_id the owner *)
(* hostile_neighbors read at the call, exhausted whether it has run to the *)
(* end, passes the full iterations made of it (counted up to 2), touched   *)
(* whether the board was mutated while the consumer held it.               *)
Kind(g) == g[1]

Arg(g) == g[2]

PlayerId(g) == g[3]

Exhausted(g) == g[4]

Passes(g) == g[5]

Touched(g) == g[6]

NoGen == <<"none", 0, 0, FALSE, 0, FALSE>>

Init ==
    /\ \E n \in 1 .. MaxPlayers : \E d \in create(n) : data = d /\ n_players = n
    /\ status = "created"
    /\ gen = NoGen
    /\ result = <<>>

\* Arguments tried for n.
ArmyArgs == (0 - 1 - MaxExtraArmies) .. (1 + MaxExtraArmies)

WithinCap(d) == TotalArmies(d) <= Cardinality(DOMAIN d) + MaxExtraArmies

Finish(r) ==
    /\ WithinCap(Board(r))
    /\ data' = Board(r)
    /\ status' = IF Raised(r) THEN "AssertionError" ELSE "ok"
    /\ result' = <<>>

DoSetOwner(t, p) ==
    /\ data' = set_owner(data, t, p)
    /\ status' = "ok"
    /\ result' = <<>>
    /\ UNCHANGED n_players

DoSetArmies(t, n) ==
    /\ Finish(set_armies(data, t, n))
    /\ UNCHANGED n_players

DoAddArmies(t, n) ==
    /\ Finish(add_armies(data, t, n))
    /\ UNCHANGED n_players

SetOwner(t, p) == DoSetOwner(t, p) /\ UNCHANGED gen

SetArmies(t, n) == DoSetArmies(t, n) /\ UNCHANGED gen

AddArmies(t, n) == DoAddArmies(t, n) /\ UNCHANGED gen

Next ==
    \/ \E t \in Tids(data), p \in PlayerIds : SetOwner(t, p)
    \/ \E t \in Tids(data), n \in ArmyArgs : SetArmies(t, n)
    \/ \E t \in Tids(data), n \in ArmyArgs : AddArmies(t, n)

Spec == Init /\ [][Next]_vars

----------------------------------------------------------------------------
(* Properties of create and the mutators, under Spec.                      *)

Abs(x) == IF x < 0 THEN 0 - x ELSE x

\* The number of territories whose record names player p as owner.
Owned(d, p) == Cardinality({t \in DOMAIN d : d[t][2] = p})

\* C1: set_armies(t, n) with n <= 0, and add_armies(t, n) with
\* armies(t) + n <= 0, end in an AssertionError and leave the whole board as
\* it was: on every reachable board such a call raises and gives the board
\* back unchanged, and every step that ends in an AssertionError leaves data
\* as it was.
C1_FailedCallLeavesBoard ==
    /\ [](\A t \in Tids(data), n \in ArmyArgs :
            /\ n <= 0 => set_armies(data, t, n) = <<TRUE, data>>
            /\ armies(data, t) + n <= 0 => add_armies(data, t, n) = <<TRUE, data>>)
    /\ [][status' = "AssertionError" => data' = data]_vars

\* A call has just failed on a board holding a territory with one army.
C1_Witness ==
    status = "AssertionError" /\ \E t \in Tids(data) : armies(data, t) = 1

\* C2: in every reachable state the board holds exactly NTerritories
\* records, the record at position i carries territory id i, and every
\* record has at least one army.
C2_BoardShape ==
    /\ DOMAIN data = 0 .. (NTerritories - 1)
    /\ \A i \in DOMAIN data : data[i][1] = i /\ data[i][3] >= 1

\* A failed call and, before it, successful calls that moved an owner and
\* raised an army count.
C2_Witness ==
    /\ status = "AssertionError"
    /\ \E t \in Tids(data) : armies(data, t) > 1
    /\ \E t \in Tids(data) : owner(data, t) >= n_players

\* C3: create(n_players) yields NTerritories records, each territory id once,
\* every army count 1 and every owner in range(n_players).
C3_CreateShape ==
    status = "created" =>
        /\ DOMAIN data = 0 .. (NTerritories - 1)
        /\ \A i \in DOMAIN data :
              /\ data[i][1] = i
              /\ data[i][3] = 1
              /\ data[i][2] \in 0 .. (n_players - 1)

\* A fresh board for the largest player count on which territory 0 did not
\* keep the owner the unshuffled allocation gives it.
C3_Witness ==
    status = "created" /\ n_players = MaxPlayers /\ owner(data, 0) # 0

\* C7: on a fresh board the territory counts of the players differ pairwise
\* by at most 1, sum to NTerritories, each is the floor or the ceiling of
\* NTerritories / n_players, and each equals the count in the unshuffled
\* cyclic allocation.
C7_EvenSplit ==
    status = "created" =>
        LET P == 0 .. (n_players - 1)
            RECURSIVE Total(_)
            Total(k) == IF k = 0 THEN 0 ELSE n_territories(data, k - 1) + Total(k - 1)
            lo == NTerritories \div n_players
            hi == (NTerritories + n_players - 1) \div n_players
        IN  /\ \A p \in P, q \in P :
                  Abs(n_territories(data, p) - n_territories(data, q)) <= 1
            /\ Total(n_players) = NTerritories
            /\ \A p \in P : n_territories(data, p) \in {lo, hi}
            /\ \A p \in P : n_territories(data, p) =
                            Cardinality({i \in 0 .. (NTerritories - 1) : i % n_players = p})

\* A fresh board on which two players hold different numbers of territories
\* and the order of the owners is not the cyclic one.
C7_Witness ==
    /\ status = "created"
    /\ \E p \in 0 .. (n_players - 1), q \in 0 .. (n_players - 1) :
          n_territories(data, p) = n_territories(data, q) + 1
    /\ \E t \in Tids(data) : owner(data, t) # t % n_players

OwnersActive == \A t \in Tids(data) : owner(data, t) \in 0 .. (n_players - 1)

\* C8 as stated: whatever arguments the mutators are given, every owner is
\* one of the active player ids 0..n_players-1.
C8_OwnersAlwaysActive == OwnersActive

\* C8 amended: every owner is an active player id on the fresh board, and
\* every call other than a set_owner with a player id outside
\* 0..n_players-1 keeps it so.
C8_OwnersActiveUnlessMisused ==
    /\ (status = "created" => OwnersActive)
    /\ [][(/\ OwnersActive
           /\ ~ \E t \in Tids(data), p \in PlayerIds \ (0 .. (n_players - 1)) :
                    SetOwner(t, p))
          => OwnersActive']_vars

\* Mutators have run, one of them gave a territory to another active
\* player, and every owner is active.
C8_Witness ==
    /\ status = "ok"
    /\ OwnersActive
    /\ \A p \in 0 .. (n_players - 1) :
          Owned(data, p) # Cardinality({i \in Tids(data) : allocation(n_players)[i] = p})
    /\ \E t \in Tids(data) : armies(data, t) > 1

\* The territories whose record differs between boards d and e.
Changed(d, e) == {u \in Tids(d) : e[u] # d[u]}

\* C9: a successful mutator changes only the targeted field of the targeted
\* record: on every reachable board set_owner(t, p) sets the owner of t to p,
\* set_armies(t, n) with n > 0 the armies of t to n, add_armies(t, n) the
\* armies of t to the old count plus n, each leaving the other fields of t
\* and every other record as they were; and every step changes at most one
\* field of at most one record.
C9_Frame ==
    /\ [](\A t \in Tids(data) :
            /\ \A p \in PlayerIds :
                  LET e == set_owner(data, t, p)
                  IN  /\ DOMAIN e = DOMAIN data
                      /\ e[t] = <<t, p, armies(data, t)>>
                      /\ Changed(data, e) \subseteq {t}
            /\ \A n \in ArmyArgs :
                  n > 0 =>
                      LET r == set_armies(data, t, n)
                      IN  /\ ~ Raised(r)
                          /\ DOMAIN Board(r) = DOMAIN data
                          /\ Board(r)[t] = <<t, owner(data, t), n>>
                          /\ Changed(data, Board(r)) \subseteq {t}
            /\ \A n \in ArmyArgs :
                  armies(data, t) + n > 0 =>
                      LET r == add_armies(data, t, n)
                      IN  /\ ~ Raised(r)
                          /\ DOMAIN Board(r) = DOMAIN data
                          /\ Board(r)[t] = <<t, owner(data, t), armies(data, t) + n>>
                          /\ Changed(data, Board(r)) \subseteq {t})
    /\ [][/\ Cardinality(Changed(data, data')) <= 1
          /\ \A u \in Changed(data, data') :
                /\ data'[u][1] = data[u][1]
                /\ data'[u][2] = data[u][2] \/ data'[u][3] = data[u][3]]_vars

\* A successful call has left a territory with more than one army in the
\* hands of a player who did not get it from create's unshuffled order, next
\* to a territory that still has one army.
C9_Witness ==
    /\ status = "ok"
    /\ \E t \in Tids(data), u \in Tids(data) :
          /\ armies(data, t) > 1
          /\ owner(data, t) # t % n_players
          /\ armies(data, u) = 1

----------------------------------------------------------------------------
(* Properties of the queries, under Spec.                                  *)

\* The pairs (from, to) player p may attack along.
Attackable(d, p) ==
    {ft \in Tids(d) \X Tids(d) :
        /\ owner(d, ft[1]) = p
        /\ armies(d, ft[1]) > 1
        /\ ft[2] \in territory_neighbors(ft[1])
        /\ owner(d, ft[2]) # p}

Members(d, c) == {t \in Tids(d) : in_continent(t, c)}

\* C6: for a continent with members, continent_owner is player p exactly
\* when p owns every member, and None exactly when two members have
\* different owners; a set_owner call that gives a member of a fully owned
\* continent to another player turns continent_owner into None and lowers
\* n_continents of the former owner by exactly 1.
C6_ContinentOwner ==
    /\ \A c \in ContinentIds :
          Members(data, c) # {} =>
              /\ \A p \in PlayerIds :
                    continent_owner(data, c) = p
                        <=> \A t \in Members(data, c) : owner(data, t) = p
              /\ continent_owner(data, c) = None
                        <=> \E t \in Members(data, c), u \in Members(data, c) :
                                owner(data, t) # owner(data, u)
    /\ \A c \in ContinentIds, p \in PlayerIds :
        \A t \in Members(data, c) :
          LET q == continent_owner(data, c)
              e == set_owner(data, t, p)
          IN  (q # None /\ q # p) =>
                  /\ continent_owner(e, c) = None
                  /\ n_continents(e, q) = n_continents(data, q) - 1

\* After a successful call one continent has no single owner while another
\* is fully owned, and the two owners of the split continent are active.
C6_Witness ==
    /\ status = "ok"
    /\ \E c \in ContinentIds, e \in ContinentIds :
          /\ continent_owner(data, c) = None
          /\ continent_owner(data, e) \in PlayerIds
          /\ n_continents(data, continent_owner(data, e)) = 1

----------------------------------------------------------------------------
(* reinforcements, on hand-built boards large enough for a player to own   *)
(* twelve territories.                                                     *)

InitReinf ==
    /\ data \in HandBuilt
    /\ n_players = 1
    /\ status = "built"
    /\ gen = NoGen
    /\ result = <<>>

\* set_owner, as long as the owners differ from those of a hand-built board
\* in at most MaxForeign territories
Reassign(t, p) ==
    /\ \E h \in HandBuilt :
          Cardinality({u \in Tids(data) :
                          owner(set_owner(data, t, p), u) # owner(h, u)}) <= MaxForeign
    /\ SetOwner(t, p)

NextReinf == \E t \in Tids(data), p \in PlayerIds : Reassign(t, p)

SpecReinf == InitReinf /\ [][NextReinf]_vars

\* The continents all of whose territories player p owns.
FullyOwned(d, p) ==
    {c \in ContinentIds : \A t \in Members(d, c) : owner(d, t) = p}

RECURSIVE BonusOf(_)
BonusOf(cs) ==
    IF cs = {} THEN 0
    ELSE LET c == CHOOSE x \in cs : TRUE IN continent_bonuses(c) + BonusOf(cs \ {c})

\* C4: reinforcements(player_id) is max(3, floor(n_territories / 3)) plus the
\* bonuses of exactly the continents the player owns in full; it is never
\* below 3, it is 3 for 5 territories and no continent, 4 for 12 territories
\* and no continent, and 9 for 12 territories and one continent of bonus 5.
C4_Reinforcements ==
    \A p \in PlayerIds :
        LET r == reinforcements(data, p)
            n == Owned(data, p)
            own == FullyOwned(data, p)
        IN  /\ r = (IF n \div 3 > 3 THEN n \div 3 ELSE 3) + BonusOf(own)
            /\ r >= 3
            /\ (n = 5 /\ own = {}) => r = 3
            /\ (n = 12 /\ own = {}) => r = 4
            /\ (n = 12 /\ BonusOf(own) = 5) => r = 9

\* Player 0 owns twelve territories and no continent and is entitled to 4,
\* while another player owns territories and is entitled to the minimum.
C4_Witness ==
    /\ Owned(data, 0) = 12
    /\ FullyOwned(data, 0) = {}
    /\ reinforcements(data, 0) = 4
    /\ \E q \in PlayerIds : Owned(data, q) \in 1 .. 8 /\ reinforcements(data, q) = 3

\* A player owns five territories and no continent and is entitled to 3,
\* after a set_owner call.
C4_WitnessFive ==
    /\ status = "ok"
    /\ \E q \in PlayerIds :
          Owned(data, q) = 5 /\ FullyOwned(data, q) = {} /\ reinforcements(data, q) = 3

\* Player 0 owns twelve territories and the continent of bonus 5 and is
\* entitled to 9.
C4_WitnessNine ==
    /\ Owned(data, 0) = 12
    /\ BonusOf(FullyOwned(data, 0)) = 5
    /\ reinforcements(data, 0) = 9

----------------------------------------------------------------------------
(* The generator objects returned by continent, neighbors,                 *)
(* hostile_neighbors and offensive.  A call builds the generator and runs  *)
(* none of it; hostile_neighbors reads owner(territory_id) before building *)
(* it.  A full iteration (for ... in gen, list(gen)) runs it to the end.   *)
(* One generator is taken per behaviour and the board is mutated at most   *)
(* once while the consumer holds it.                                       *)

NewGen(kind, arg, player_id) == <<kind, arg, player_id, FALSE, 0, FALSE>>

\* What the generator expression g yields when run to the end over d.
Body(g, d) ==
    CASE Kind(g) = "continent"         -> continent(d, Arg(g))
      [] Kind(g) = "neighbors"         -> neighbors(d, Arg(g))
      [] Kind(g) = "hostile_neighbors" -> hostile_to(d, PlayerId(g), Arg(g))
      [] Kind(g) = "offensive"         -> offensive(d, Arg(g))

\* Variant: the object starts over on every iteration, as a list
\* comprehension wrapped in a re-iterable view would.
iterate_restart(g, d) ==
    <<Body(g, d), [g EXCEPT ![4] = TRUE, ![5] = IF @ < 2 THEN @ + 1 ELSE @]>>

\* One full iteration of generator object g, giving <<records yielded, the
\* object afterwards>>: a generator that has finished raises StopIteration
\* at once on every later iteration.
iterate(g, d) ==
    <<IF Exhausted(g) THEN <<>> ELSE Body(g, d),
      [g EXCEPT ![4] = TRUE, ![5] = IF @ < 2 THEN @ + 1 ELSE @]>>

Call(g) ==
    /\ gen = NoGen
    /\ gen' = g
    /\ status' = "called"
    /\ result' = <<>>
    /\ UNCHANGED <<data, n_players>>

CallContinent(c) == Call(NewGen("continent", c, 0))

CallNeighbors(t) == Call(NewGen("neighbors", t, 0))

CallHostileNeighbors(t) == Call(NewGen("hostile_neighbors", t, owner(data, t)))

CallOffensive(p) == Call(NewGen("offensive", p, 0))

Iterate ==
    /\ gen # NoGen
    /\ result' = iterate(gen, data)[1]
    /\ gen' = iterate(gen, data)[2]
    /\ status' = "iterated"
    /\ UNCHANGED <<data, n_players>>

Touch ==
    /\ gen # NoGen
    /\ ~ Touched(gen)
    /\ gen' = [gen EXCEPT ![6] = TRUE]

NextIter ==
    \/ \E c \in ContinentIds : CallContinent(c)
    \/ \E t \in Tids(data) : CallNeighbors(t)
    \/ \E t \in Tids(data) : CallHostileNeighbors(t)
    \/ \E p \in PlayerIds : CallOffensive(p)
    \/ Iterate
    \/ \E t \in Tids(data), p \in PlayerIds : Touch /\ DoSetOwner(t, p)
    \/ \E t \in Tids(data), n \in ArmyArgs : Touch /\ DoSetArmies(t, n)
    \/ \E t \in Tids(data), n \in ArmyArgs : Touch /\ DoAddArmies(t, n)

SpecIter == Init /\ [][NextIter]_vars

\* The territories whose records generator g selects on board d.
Selected(g, d) ==
    {t \in Tids(d) :
        CASE Kind(g) = "continent"         -> in_continent(t, Arg(g))
          [] Kind(g) = "neighbors"         -> t \in territory_neighbors(Arg(g))
          [] Kind(g) = "hostile_neighbors" -> /\ t \in territory_neighbors(Arg(g))
                                              /\ owner(d, t) # PlayerId(g)
          [] Kind(g) = "offensive"         -> owner(d, t) = Arg(g) /\ armies(d, t) > 1}

\* Sequence r is the records of the selected territories of the board as it
\* is now, each once, in ascending order of territory id.
YieldsCurrent(r) ==
    /\ {r[i] : i \in 1 .. Len(r)} = {data[t] : t \in Selected(gen, data)}
    /\ Len(r) = Cardinality(Selected(gen, data))
    /\ \A i \in 1 .. Len(r), j \in 1 .. Len(r) : i < j => r[i][1] < r[j][1]

C10_WitnessFirstPass ==
    /\ status = "iterated"
    /\ Passes(gen) = 1
    /\ Touched(gen)
    /\ result # <<>>

====
